---- MODULE Spec2Model ----
(***************************************************************************)
(* Model of blca-GEM.py: parse_gene_expression_files.                      *)
(*                                                                         *)
(* Strings are sequences of one-character strings, so that strip, split    *)
(* and endswith are computed character by character as Python computes     *)
(* them.  A run walks the input directory, then processes the discovered   *)
(* files one by one (register the sample id, open, skip the header rows,   *)
(* parse and record every remaining line), and finally builds and writes   *)
(* the matrix.  The content of the files and the I/O failures are inputs:  *)
(* they are drawn when the program reads them.                             *)
(***************************************************************************)
EXTENDS Integers, Sequences, FiniteSets, TLC

\* ---------------------------------------------------------------- bounds
MaxFiles == 2    \* files the walk appends to tsv_files
MaxLines == 3    \* lines of all the discovered files together
MaxSkip == 1     \* skip_rows

\* ------------------------------------------------------------ characters
TAB == "\t"
SP == " "
NL == "\n"

\* The characters str.strip() removes (those of the model's alphabet).
Whitespace == {TAB, SP, NL}

Range(s) == {s[i] : i \in 1..Len(s)}

\* ------------------------------------------------------ string functions
\* str.endswith
endswith(s, suffix) ==
    /\ Len(s) >= Len(suffix)
    /\ SubSeq(s, Len(s) - Len(suffix) + 1, Len(s)) = suffix

\* str.find, 1-based; 0 when sep does not occur in s
find(s, sep) ==
    LET hits == {i \in 1..(Len(s) - Len(sep) + 1) :
                     SubSeq(s, i, i + Len(sep) - 1) = sep}
    IN IF hits = {} THEN 0 ELSE CHOOSE i \in hits : \A j \in hits : i <= j

\* str.split(sep): the pieces between the non-overlapping occurrences of sep,
\* scanned from the left
RECURSIVE split(_, _)
split(s, sep) ==
    LET i == find(s, sep)
    IN IF i = 0 THEN <<s>>
       ELSE <<SubSeq(s, 1, i - 1)>> \o split(SubSeq(s, i + Len(sep), Len(s)), sep)

RECURSIVE lstrip(_)
lstrip(s) ==
    IF s # <<>> /\ Head(s) \in Whitespace THEN lstrip(Tail(s)) ELSE s

RECURSIVE rstrip(_)
rstrip(s) ==
    IF s # <<>> /\ s[Len(s)] \in Whitespace
    THEN rstrip(SubSeq(s, 1, Len(s) - 1)) ELSE s

\* str.strip(): leading and trailing whitespace removed
strip(s) == rstrip(lstrip(s))

max(a, b) == IF a >= b THEN a ELSE b

\* ---------------------------------------------------------------- inputs
\* str.join
RECURSIVE join(_, _)
join(parts, sep) ==
    IF Len(parts) = 0 THEN <<>>
    ELSE IF Len(parts) = 1 THEN parts[1]
    ELSE parts[1] \o sep \o join(Tail(parts), sep)

\* Field contents of the input lines: empty, blank, and two identifiers.
Fields == {<<>>, <<SP>>, <<"a">>, <<"b">>}

\* The text of an input line without its line ending: one field, or two
\* fields joined by a tab.
LineContents == Fields \cup {join(<<f, g>>, <<TAB>>) : f, g \in Fields}

\* The directories os.walk visits, in the order it visits them (input_dir,
\* then its subdirectory), and the files the tree may hold.
Roots == <<"gdc-blca", "gdc-blca/s1">>
NameA == <<"a", ".", "t", "s", "v">>
NameB == <<"b", ".", "t", "s", "v", ".", "t", "s", "v">>
NameTxt == <<"a", ".", "t", "x", "t">>
Tree == {[root |-> Roots[1], file |-> NameA],
         [root |-> Roots[1], file |-> NameB],
         [root |-> Roots[1], file |-> NameTxt],
         [root |-> Roots[2], file |-> NameA]}

RootIndex(r) == CHOOSE i \in 1..Len(Roots) : Roots[i] = r

\* Values of the integer parameters.
ColumnIndexes == {0, 1}
SkipRowsValues == 0..MaxSkip

\* ------------------------------------------------------ program constants
TsvExt == <<".", "t", "s", "v">>
NA == <<"N", "A">>
GeneLabel == <<"G", "e", "n", "e">>
\* The missing value of an unset DataFrame cell; no string equals it.
NaN == <<"NaN">>

EmptyDict == [k \in {} |-> k]

VARIABLES
    gene_column_index,        \* parameters
    expression_column_index,
    skip_rows,
    pc,                       \* position in parse_gene_expression_files
    tsv_files,                \* discovered paths, [root, file]
    fi,                       \* index in tsv_files of the file being processed
    sample_id,
    sample_ids,
    gene_data,                \* dict: [keys: insertion order, map: key -> dict]
    nlines,                   \* number of lines of the open file
    totalLines,               \* lines of the files opened so far
    pos,                      \* lines of the open file consumed so far
    skipped,                  \* iterations done of the header-skipping loop
    line,                     \* the line last read by the parsing loop
    errors,                   \* files whose processing printed an error
    output,                   \* the written matrix: [header, rows]
    \* history variables, read by the properties only
    emitted,                  \* pair recorded for `line`: <<>> or <<[gene, value]>>
    procLines,                \* line numbers of the open file given to the parsing loop
    recLines,                 \* line numbers of the open file that recorded a pair
    firstSeen,                \* genes in the order of their first recorded pair
    origin,                   \* <<gene, sample>> -> index of the file that wrote the value
    rawLast,                  \* <<>>, or <<[gene, sample, value]>> of the last line read
                              \* whose tab-separated fields are enough for both columns
    ioFailed                  \* indexes of the files whose open or read failed

progVars == <<gene_column_index, expression_column_index, skip_rows, pc, tsv_files,
              fi, sample_id, sample_ids, gene_data, nlines, totalLines, pos, skipped,
              line, errors, output>>
histVars == <<emitted, procLines, recLines, firstSeen, origin, rawLast, ioFailed>>
vars == <<progVars, histVars>>

NoOutput == [header |-> <<>>, rows |-> <<>>]

Init ==
    /\ gene_column_index \in ColumnIndexes
    /\ expression_column_index \in ColumnIndexes
    /\ skip_rows \in SkipRowsValues
    /\ pc = "walk"
    /\ tsv_files = <<>>
    /\ fi = 0
    /\ sample_id = <<>>
    /\ sample_ids = <<>>
    /\ gene_data = [keys |-> <<>>, map |-> EmptyDict]
    /\ nlines = 0
    /\ totalLines = 0
    /\ pos = 0
    /\ skipped = 0
    /\ line = <<>>
    /\ errors = {}
    /\ output = NoOutput
    /\ emitted = <<>>
    /\ procLines = {}
    /\ recLines = {}
    /\ firstSeen = <<>>
    /\ origin = EmptyDict
    /\ rawLast = <<>>
    /\ ioFailed = {}

\* ---------------------------------------------------- the code's functions
\* os.path.basename(os.path.join(root, file)): the file name (it has no separator)
basename(path) == path.file

\* line 43: the part of the base name before the first ".tsv"
SampleIdOf(path) == split(basename(path), TsvExt)[1]

\* lines 44-45 without the membership test
registerSample_always(ids, id) == Append(ids, id)

\* lines 44-45 with the membership test inverted
registerSample_inverted(ids, id) == IF id \in Range(ids) THEN Append(ids, id) ELSE ids

\* lines 44-45
registerSample(ids, id) == IF id \in Range(ids) THEN ids ELSE Append(ids, id)

\* line 54 as next(file), which raises StopIteration at the end of the file
readline_next(p, n) ==
    IF p < n THEN [status |-> "line", pos |-> p + 1]
    ELSE [status |-> "raise", pos |-> p]

\* line 54: file.readline() with pos of the n lines of the file consumed; at
\* the end of the file it returns the empty string and raises nothing
readline(p, n) ==
    IF p < n THEN [status |-> "line", pos |-> p + 1]
    ELSE [status |-> "empty", pos |-> p]

\* line 58
parts(l) == split(strip(l), <<TAB>>)

\* line 61: the line is malformed and skipped
malformed(p) == Len(p) <= max(gene_column_index, expression_column_index)

\* lines 68-72 with the key appended on every record, as a list of keys kept
\* without the test of line 68 would be
record_dupkey(gd, gene_name, sid, expression_value) ==
    LET gd1 == [keys |-> Append(gd.keys, gene_name),
                map |-> IF gene_name \in DOMAIN gd.map THEN gd.map
                        ELSE (gene_name :> EmptyDict) @@ gd.map]
    IN [gd1 EXCEPT !.map[gene_name] = (sid :> expression_value) @@ @]

\* lines 68-72 on the dict gene_data
record(gd, gene_name, sid, expression_value) ==
    LET gd1 == IF gene_name \notin Range(gd.keys)
               THEN [keys |-> Append(gd.keys, gene_name),
                     map |-> (gene_name :> EmptyDict) @@ gd.map]
               ELSE gd
    IN [gd1 EXCEPT !.map[gene_name] = (sid :> expression_value) @@ @]

\* line 80 with the index taken in another order than the dict's (the reverse)
DataFrame_reordered(index, columns) ==
    [index |-> [i \in 1..Len(index) |-> index[Len(index) + 1 - i]],
     columns |-> columns,
     cell |-> [c \in Range(index) \X Range(columns) |-> NaN]]

\* line 80: an empty frame, every cell missing
DataFrame(index, columns) ==
    [index |-> index, columns |-> columns,
     cell |-> [c \in Range(index) \X Range(columns) |-> NaN]]

\* lines 83-85: df_output.at[gene_name, sample_id] = value for every stored value
fill(df, gd) ==
    [df EXCEPT !.cell =
        [c \in DOMAIN df.cell |->
            IF c[2] \in DOMAIN gd.map[c[1]] THEN gd.map[c[1]][c[2]] ELSE df.cell[c]]]

\* line 88 with the result of fillna not assigned
fillna_dropped(df, v) == df

\* line 88: missing cells replaced by "NA"
fillna(df, v) ==
    [df EXCEPT !.cell = [c \in DOMAIN df.cell |-> IF df.cell[c] = NaN THEN v ELSE df.cell[c]]]

\* lines 91-94: the header row is the index name then the columns, each row the
\* index label then its cells in column order
to_csv(df) ==
    [header |-> <<GeneLabel>> \o df.columns,
     rows |-> [i \in 1..Len(df.index) |->
                 <<df.index[i]>> \o
                 [j \in 1..Len(df.columns) |-> df.cell[<<df.index[i], df.columns[j]>>]]]]

\* ------------------------------------------------- reference line parsing
\* the line with only its line ending removed
chomp(l) == IF l # <<>> /\ l[Len(l)] = NL THEN SubSeq(l, 1, Len(l) - 1) ELSE l

\* its tab-separated fields
RawFields(l) == split(chomp(l), <<TAB>>)

RawWellFormed(l) ==
    Len(RawFields(l)) > max(gene_column_index, expression_column_index)

RawPair(l) == [gene |-> RawFields(l)[gene_column_index + 1],
               value |-> RawFields(l)[expression_column_index + 1]]

\* ---------------------------------------------------------------- actions
\* lines 33-36: the walk meets one more file of the tree, in a root not before
\* the roots already visited
WalkFile(path) ==
    /\ pc = "walk"
    /\ Len(tsv_files) < MaxFiles
    /\ path \notin Range(tsv_files)
    /\ IF tsv_files = <<>> THEN TRUE
       ELSE RootIndex(tsv_files[Len(tsv_files)].root) <= RootIndex(path.root)
    /\ tsv_files' = IF endswith(path.file, TsvExt)
                    THEN Append(tsv_files, path) ELSE tsv_files
    /\ UNCHANGED <<gene_column_index, expression_column_index, skip_rows, pc, fi,
                   totalLines, sample_id, sample_ids, gene_data, nlines, pos, skipped,
                   line, errors, output, histVars>>

\* line 38: the walk is over
EndWalk ==
    /\ pc = "walk"
    /\ pc' = "for_file"
    /\ UNCHANGED <<gene_column_index, expression_column_index, skip_rows, tsv_files, totalLines,
                   fi, sample_id, sample_ids, gene_data, nlines, pos, skipped, line,
                   errors, output, histVars>>

\* lines 41-47: the next file of tsv_files, its sample id registered
NextFile ==
    /\ pc = "for_file"
    /\ fi < Len(tsv_files)
    /\ fi' = fi + 1
    /\ sample_id' = SampleIdOf(tsv_files[fi + 1])
    /\ sample_ids' = registerSample(sample_ids, SampleIdOf(tsv_files[fi + 1]))
    /\ pc' = "open"
    /\ UNCHANGED <<gene_column_index, expression_column_index, skip_rows, tsv_files, totalLines,
                   gene_data, nlines, pos, skipped, line, errors, output, histVars>>

\* line 51: the file opens; it has n lines
OpenFile(n) ==
    /\ pc = "open"
    /\ totalLines + n <= MaxLines
    /\ nlines' = n
    /\ totalLines' = totalLines + n
    /\ pos' = 0
    /\ skipped' = 0
    /\ pc' = "skip"
    /\ UNCHANGED <<gene_column_index, expression_column_index, skip_rows, tsv_files,
                   fi, sample_id, sample_ids, gene_data, line, errors, output,
                   histVars>>

\* lines 51, 74-75: open() raises; the error is printed and the loop goes on
OpenFails ==
    /\ pc = "open"
    /\ errors' = errors \cup {fi}
    /\ ioFailed' = ioFailed \cup {fi}
    /\ pc' = "for_file"
    /\ UNCHANGED <<gene_column_index, expression_column_index, skip_rows, tsv_files, totalLines,
                   fi, sample_id, sample_ids, gene_data, nlines, pos, skipped, line,
                   output, emitted, procLines, recLines, firstSeen, origin, rawLast>>

\* lines 53-54: one file.readline() of the skipping loop. An exception raised
\* inside the try block is caught at lines 74-75.
SkipRow ==
    /\ pc = "skip"
    /\ skipped < skip_rows
    /\ LET r == readline(pos, nlines)
       IN IF r.status = "raise"
          THEN /\ errors' = errors \cup {fi}
               /\ pc' = "for_file"
               /\ UNCHANGED <<pos, skipped>>
          ELSE /\ pos' = r.pos
               /\ skipped' = skipped + 1
               /\ UNCHANGED <<errors, pc>>
    /\ UNCHANGED <<gene_column_index, expression_column_index, skip_rows,
                   tsv_files, totalLines, fi, sample_id, sample_ids, gene_data, nlines,
                   line, output, histVars>>

\* line 53: the skipping loop is done
EndSkip ==
    /\ pc = "skip"
    /\ skipped = skip_rows
    /\ pc' = "read"
    /\ UNCHANGED <<gene_column_index, expression_column_index, skip_rows, tsv_files, totalLines,
                   fi, sample_id, sample_ids, gene_data, nlines, pos, skipped, line,
                   errors, output, histVars>>

\* lines 57-72: the loop reads the next line, whose text is content
ReadLine(content) ==
    /\ pc = "read"
    /\ pos < nlines
    /\ pos' = pos + 1
    /\ line' = content \o <<NL>>
    /\ procLines' = procLines \cup {pos + 1}
    /\ LET p == parts(line')
           gene_name == p[gene_column_index + 1]
           expression_value == p[expression_column_index + 1]
       IN IF malformed(p)
          THEN /\ emitted' = <<>>
               /\ UNCHANGED <<gene_data, recLines, firstSeen, origin>>
          ELSE /\ gene_data' = record(gene_data, gene_name, sample_id, expression_value)
               /\ emitted' = <<[gene |-> gene_name, value |-> expression_value]>>
               /\ recLines' = recLines \cup {pos + 1}
               /\ firstSeen' = IF gene_name \in Range(firstSeen) THEN firstSeen
                               ELSE Append(firstSeen, gene_name)
               /\ origin' = (<<gene_name, sample_id>> :> fi) @@ origin
    /\ rawLast' = IF RawWellFormed(line')
                  THEN <<[gene |-> RawPair(line').gene, sample |-> sample_id,
                          value |-> RawPair(line').value]>>
                  ELSE rawLast
    /\ UNCHANGED <<gene_column_index, expression_column_index, skip_rows, pc,
                   tsv_files, totalLines, fi, sample_id, sample_ids, nlines, skipped, errors,
                   output, ioFailed>>

\* line 57: the end of the file; the file is closed and its locals are dead
EndOfFile ==
    /\ pc = "read"
    /\ pos = nlines
    /\ pc' = "for_file"
    /\ nlines' = 0
    /\ pos' = 0
    /\ skipped' = 0
    /\ line' = <<>>
    /\ emitted' = <<>>
    /\ procLines' = {}
    /\ recLines' = {}
    /\ UNCHANGED <<gene_column_index, expression_column_index, skip_rows, tsv_files, totalLines,
                   fi, sample_id, sample_ids, gene_data, errors, output,
                   firstSeen, origin, rawLast, ioFailed>>

\* lines 54, 57, 74-75: reading the next line raises (an I/O or decoding error);
\* the error is printed and the loop goes on with the next file
ReadFails ==
    /\ \/ pc = "skip" /\ skipped < skip_rows
       \/ pc = "read"
    /\ pos < nlines
    /\ errors' = errors \cup {fi}
    /\ ioFailed' = ioFailed \cup {fi}
    /\ pc' = "for_file"
    /\ nlines' = 0
    /\ pos' = 0
    /\ skipped' = 0
    /\ line' = <<>>
    /\ emitted' = <<>>
    /\ procLines' = {}
    /\ recLines' = {}
    /\ UNCHANGED <<gene_column_index, expression_column_index, skip_rows, tsv_files, totalLines,
                   fi, sample_id, sample_ids, gene_data, output,
                   firstSeen, origin, rawLast>>

\* lines 77-95: the frame is built, filled and written
Emit ==
    /\ pc = "for_file"
    /\ fi = Len(tsv_files)
    /\ output' = to_csv(fillna(fill(DataFrame(gene_data.keys, sample_ids), gene_data), NA))
    /\ pc' = "done"
    /\ UNCHANGED <<gene_column_index, expression_column_index, skip_rows, tsv_files, totalLines,
                   fi, sample_id, sample_ids, gene_data, nlines, pos, skipped, line,
                   errors, histVars>>

Next ==
    \/ \E path \in Tree : WalkFile(path)
    \/ EndWalk
    \/ NextFile
    \/ \E n \in 0..MaxLines : OpenFile(n)
    \/ OpenFails
    \/ SkipRow
    \/ EndSkip
    \/ \E content \in LineContents : ReadLine(content)
    \/ EndOfFile
    \/ ReadFails
    \/ Emit

Spec == Init /\ [][Next]_vars

\* ------------------------------------------------------------ the output
\* rows of the written matrix whose label is gene g, columns whose header is s
RowsOf(g) == {i \in 1..Len(output.rows) : output.rows[i][1] = g}
ColumnsOf(s) == {j \in 2..Len(output.header) : output.header[j] = s}

\* the string s with the first occurrence of sep removed, and nothing else
RemoveFirst(s, sep) ==
    LET i == find(s, sep)
    IN IF i = 0 THEN s
       ELSE SubSeq(s, 1, i - 1) \o SubSeq(s, i + Len(sep), Len(s))

\* ---------------------------------------------------------------- claims

\* C1: after a run, for the gene g and the sample id s of a processed line whose
\* tab-separated fields are enough for both columns, the output has the cell
\* (g, s) and it equals the value field of the last such line, verbatim.
\* rawLast is the last such line of the run, so no later line overwrites it.
C1_CellIsLastRawValue ==
    (pc = "done" /\ rawLast # <<>>) =>
        /\ RowsOf(rawLast[1].gene) # {}
        /\ ColumnsOf(rawLast[1].sample) # {}
        /\ \A i \in RowsOf(rawLast[1].gene), j \in ColumnsOf(rawLast[1].sample) :
               output.rows[i][j] = rawLast[1].value

\* C2: a file whose open or read failed contributes zero records: the mapping
\* holds no value written while that file was processed; the remaining files
\* are still processed and the matrix is emitted.
C2_FailedFileContributesNothing ==
    /\ \A k \in DOMAIN origin : origin[k] \notin ioFailed
    /\ pc = "done" => fi = Len(tsv_files)

\* C3: for each line after the skipped ones, the parser emits exactly the pair
\* (fields[gene_column_index], fields[expression_column_index]) of the fields
\* of the line with only its line ending removed when there are more fields
\* than max(gene_column_index, expression_column_index), and no pair otherwise.
C3_ParserEmitsPairOfRawFields ==
    (pc = "read" /\ line # <<>>) =>
        emitted = IF RawWellFormed(line) THEN <<RawPair(line)>> ELSE <<>>

\* C8: the sample id of a discovered file is its base name with the first
\* occurrence of ".tsv" removed and nothing else removed.
C8_SampleIdRemovesFirstExtension ==
    fi >= 1 => sample_id = RemoveFirst(basename(tsv_files[fi]), TsvExt)

\* C4: every cell (g, s) of the output for which no pair was recorded equals
\* "NA", and every cell for which one was recorded holds the stored value.
C4_AbsentCellsAreNA ==
    pc = "done" =>
        \A i \in 1..Len(output.rows), j \in 2..Len(output.header) :
            LET g == output.rows[i][1]
                s == output.header[j]
            IN IF <<g, s>> \in DOMAIN origin
               THEN output.rows[i][j] = gene_data.map[g][s]
               ELSE output.rows[i][j] = NA

C4_Witness ==
    /\ pc = "done"
    /\ \E i \in 1..Len(output.rows), j \in 2..Len(output.header) :
           /\ <<output.rows[i][1], output.header[j]>> \notin DOMAIN origin
           /\ output.rows[i][j] = NA
    /\ \E i \in 1..Len(output.rows), j \in 2..Len(output.header) :
           /\ <<output.rows[i][1], output.header[j]>> \in DOMAIN origin
           /\ output.rows[i][j] # NA

\* C5: the number of output rows is the number of distinct genes extracted,
\* and the number of data columns is the number of distinct sample ids of the
\* discovered files, whether or not a file yielded records or failed.
C5_RowAndColumnCounts ==
    pc = "done" =>
        /\ Len(output.rows) = Cardinality(Range(firstSeen))
        /\ Len(output.header) - 1 =
               Cardinality({SampleIdOf(tsv_files[k]) : k \in 1..Len(tsv_files)})

C5_Witness ==
    /\ pc = "done"
    /\ Len(tsv_files) = 2
    /\ SampleIdOf(tsv_files[1]) = SampleIdOf(tsv_files[2])
    /\ 2 \in ioFailed
    /\ Len(output.header) = 2
    /\ Len(output.rows) = 2

\* C6: the sample-id sequence has no duplicates, holds the sample ids of the
\* files processed so far ordered by the first file with each id, and the
\* output header is "Gene" followed by exactly that sequence.
FirstFile(id) ==
    CHOOSE k \in 1..fi :
        /\ SampleIdOf(tsv_files[k]) = id
        /\ \A m \in 1..(k - 1) : SampleIdOf(tsv_files[m]) # id

C6_SampleIdsFirstSeenOrder ==
    /\ \A i, j \in 1..Len(sample_ids) : i # j => sample_ids[i] # sample_ids[j]
    /\ Range(sample_ids) = {SampleIdOf(tsv_files[k]) : k \in 1..fi}
    /\ \A i, j \in 1..Len(sample_ids) :
           i < j => FirstFile(sample_ids[i]) < FirstFile(sample_ids[j])
    /\ pc = "done" => output.header = <<GeneLabel>> \o sample_ids

C6_Witness ==
    /\ pc = "done"
    /\ Len(tsv_files) = 2
    /\ SampleIdOf(tsv_files[1]) = SampleIdOf(tsv_files[2])
    /\ sample_ids = <<SampleIdOf(tsv_files[1])>>
    /\ Len(output.header) = 2

\* C7: exactly skip_rows leading lines of a file are skipped: the parsing loop
\* is given the lines skip_rows+1..n and no other, records come only from
\* those, and a file of n <= skip_rows lines is read to its end, gives the
\* loop no line and raises no error (every error printed is an I/O failure).
C7_SkipsExactlySkipRows ==
    /\ pc = "skip" => (procLines = {} /\ recLines = {} /\ pos <= skipped)
    /\ pc = "read" =>
           /\ procLines = {n \in 1..pos : n > skip_rows}
           /\ recLines \subseteq procLines
           /\ IF nlines <= skip_rows THEN pos = nlines ELSE pos >= skip_rows
    /\ errors \subseteq ioFailed

C7_Witness ==
    /\ pc = "read"
    /\ skip_rows >= 1
    /\ recLines = {skip_rows + 1}

\* C9: the output has one row per distinct gene key of the mapping, in the
\* order in which the genes were first recorded.
C9_RowsInFirstInsertionOrder ==
    pc = "done" =>
        /\ [i \in 1..Len(output.rows) |-> output.rows[i][1]] = firstSeen
        /\ Len(output.rows) = Cardinality(DOMAIN gene_data.map)

C9_Witness ==
    /\ pc = "done"
    /\ Len(output.rows) = 2
    /\ \E s \in Range(sample_ids) :
           /\ <<output.rows[1][1], s>> \in DOMAIN origin
           /\ origin[<<output.rows[1][1], s>>] = 2
    /\ \A s \in Range(sample_ids) :
           <<output.rows[2][1], s>> \in DOMAIN origin
               => origin[<<output.rows[2][1], s>>] = 1

\* C10: every gene key of the mapping maps to a non-empty sample -> value
\* mapping whose sample ids are all registered; so every emitted row has a
\* cell holding a stored value and every stored value is in a cell.
C10_MappingWellFormed ==
    /\ DOMAIN gene_data.map = Range(gene_data.keys)
    /\ \A g \in DOMAIN gene_data.map :
           /\ DOMAIN gene_data.map[g] # {}
           /\ DOMAIN gene_data.map[g] \subseteq Range(sample_ids)
    /\ pc = "done" =>
           /\ \A i \in 1..Len(output.rows) :
                  \E j \in 2..Len(output.header) :
                      /\ output.header[j] \in DOMAIN gene_data.map[output.rows[i][1]]
                      /\ output.rows[i][j] =
                             gene_data.map[output.rows[i][1]][output.header[j]]
           /\ \A g \in DOMAIN gene_data.map :
                  \A s \in DOMAIN gene_data.map[g] :
                      \E i \in RowsOf(g), j \in ColumnsOf(s) :
                          output.rows[i][j] = gene_data.map[g][s]

C10_Witness ==
    /\ pc = "done"
    /\ \E g \in DOMAIN gene_data.map : Cardinality(DOMAIN gene_data.map[g]) = 2
    /\ \E g \in DOMAIN gene_data.map : Cardinality(DOMAIN gene_data.map[g]) = 1

====
